---- MODULE Spec2Model ----
(***************************************************************************)
(* Model of the notification dispatch and delivery tracking engine of      *)
(* notification-api: NotificationsService (notifications.service.ts), the  *)
(* NotificationProviderFactory (provider.factory.ts), the Email and FCM    *)
(* providers, and the NotificationsController entry point.                 *)
(*                                                                         *)
(* The persistent store behind PrismaService is the state: users, channel  *)
(* rows, notification rows and delivery rows.  Every `await` on the store  *)
(* in createNotification is a step of its own, so that concurrent requests *)
(* interleave exactly where the event loop lets them.                      *)
(***************************************************************************)
EXTENDS Integers, Sequences, FiniteSets, TLC

\* ------------------------------------------------------------------ bounds
\* createNotification requests issued in one run
MaxRequests == 1
\* channel create / update / delete requests issued in one run
MaxChannelOps == 1
\* channel requests issued in one run of the channel endpoints alone
MaxManageOps == 3

\* -------------------------------------------------------- program constants
\* /^[A-Za-z0-9:_-]{140,}$/ : minimum length of an FCM token
FcmMinLen == 140

\* ------------------------------------------------------------------- enums
NotificationStatus == {"PENDING", "SENT", "READ", "FAILED"}

NotificationType == {"ANNOUNCEMENT", "ASSIGNMENT", "GRADE", "REMINDER", "SYSTEM"}

NotificationChannelType ==
    {"EMAIL", "FCM", "WEBHOOK", "SMS", "SLACK", "DISCORD", "TELEGRAM"}

NotificationDeliveryStatus == {"PENDING", "SENT", "DELIVERED", "FAILED", "RETRY"}

\* the kinds the model draws its inputs from: the two registered kinds and
\* one kind of the enum that has no provider
ModelKinds == {"EMAIL", "FCM", "WEBHOOK"}

\* users of the store, with the role the auth layer attaches to the request
Users == {"teacher", "student"}

Role(u) == IF u = "teacher" THEN "TEACHER" ELSE "STUDENT"

\* a recipient id that is no row of the user table
Ghost == "ghost"

NULL == "NULL"
SET == "SET"

\* ----------------------------------------------------------- channel values
\* The addresses the model uses, by name; AddressText gives the characters
\* the validators look at.
Addresses == {"a@b.c", "x@y.z", "nomail", "tokLong", "tokSeed", "hook"}

AddressText(v) ==
    CASE v = "a@b.c"   -> <<"a", "@", "b", ".", "c">>
      [] v = "x@y.z"   -> <<"x", "@", "y", ".", "z">>
      [] v = "nomail"  -> <<"n", "o", "m", "a", "i", "l">>
      [] v = "tokLong" -> [i \in 1..FcmMinLen |-> "t"]
      [] v = "tokSeed" -> [i \in 1..111 |-> "t"]
      [] v = "hook"    -> <<"h", ":", "/", "/", "w", ".", "s">>

Whitespace == {" "}

TokenChars == {"a", "b", "c", "h", "i", "l", "m", "n", "o", "s", "t", "w",
               "x", "y", "z", ":", "_", "-"}

\* EmailProvider.validateChannelValue: /^[^\s@]+@[^\s@]+\.[^\s@]+$/
EmailValidate(v) ==
    LET s == AddressText(v)
        n == Len(s)
        ats == {i \in 1..n : s[i] = "@"}
    IN  /\ \A i \in 1..n : s[i] \notin Whitespace
        /\ Cardinality(ats) = 1
        /\ \E i \in ats :
              /\ i > 1
              /\ \E j \in (i + 2)..(n - 1) : s[j] = "."

\* FcmProvider.validateChannelValue: /^[A-Za-z0-9:_-]{140,}$/
FcmValidate(v) ==
    LET s == AddressText(v)
    IN  /\ Len(s) >= FcmMinLen
        /\ \A i \in 1..Len(s) : s[i] \in TokenChars

\* ---------------------------------------------------------------- registry
\* NotificationProviderFactory.registerProviders
RegisteredKinds == {"EMAIL", "FCM"}

\* NotificationProviderFactory.getProvider: the kind's provider, or null
GetProvider(type) == IF type \in RegisteredKinds THEN type ELSE NULL

\* a validation that only asks whether the kind has a provider
ValidateKindOnly(type, value) == GetProvider(type) # NULL

\* a validation without the test of the looked-up provider: a kind that is
\* not FCM is validated as an email address
ValidateChannelValueNoNullCheck(type, value) ==
    IF type = "FCM" THEN FcmValidate(value) ELSE EmailValidate(value)

\* NotificationProviderFactory.validateChannelValue
ValidateChannelValue(type, value) ==
    IF GetProvider(type) = NULL THEN FALSE
    ELSE IF type = "EMAIL" THEN EmailValidate(value)
    ELSE FcmValidate(value)

\* ------------------------------------------------------------ configuration
\* ConfigService values read by the providers' constructors and sends:
\* EMAIL_PROVIDER, the credentials of the selected email provider
\* (SENDGRID_API_KEY, or the AWS / SMTP settings) and FCM_SERVER_KEY.
Configs ==
    { [emailProvider |-> "console",  emailCreds |-> FALSE, fcmServerKey |-> FALSE],
      [emailProvider |-> "sendgrid", emailCreds |-> TRUE,  fcmServerKey |-> TRUE] }

\* What the world does to one handler invocation: the provider's HTTP call
\* answers OK, answers with an error, or throws; "raise" is a fault that
\* leaves provider.send as a rejected promise.
HandlerEnv == {"ok", "rejected", "throws", "raise"}

NoMessage == <<>>

\* DeliveryResult (base.provider.ts)
Result(success, status, errorMessage) ==
    [success |-> success, status |-> status, errorMessage |-> errorMessage,
     thrown |-> FALSE]

\* a rejected promise carrying an Error
Thrown(message) ==
    [success |-> FALSE, status |-> "FAILED", errorMessage |-> message,
     thrown |-> TRUE]

\* EmailProvider.sendViaSendGrid / sendViaAwsSes / sendViaNodemailer /
\* sendViaConsole: <<success, errorMessage>>
EmailTransport(cfg, env) ==
    CASE cfg.emailProvider = "sendgrid" ->
            IF ~cfg.emailCreds
            THEN <<FALSE, <<"SendGrid API key not configured">> >>
            ELSE IF env = "ok" THEN <<TRUE, NoMessage>>
            ELSE IF env = "rejected" THEN <<FALSE, <<"SendGrid API error">> >>
            ELSE <<FALSE, <<"SendGrid error">> >>
      [] cfg.emailProvider \in {"aws-ses", "nodemailer"} ->
            IF ~cfg.emailCreds
            THEN <<FALSE, <<"credentials not fully configured">> >>
            ELSE <<TRUE, NoMessage>>
      [] OTHER -> <<TRUE, NoMessage>>

\* EmailProvider.send
EmailSend(cfg, value, env) ==
    IF ~EmailValidate(value)
    THEN Result(FALSE, "FAILED", <<"Invalid email address format">>)
    ELSE LET t == EmailTransport(cfg, env)
         IN  IF t[1]
             THEN Result(TRUE, "DELIVERED", NoMessage)
             ELSE Result(FALSE, "FAILED", t[2])

\* an FcmProvider.send without its try / catch: an error thrown by fetch
\* leaves send
FcmSendNoCatch(cfg, value, env) ==
    IF ~FcmValidate(value)
    THEN Result(FALSE, "FAILED", <<"Invalid FCM token format">>)
    ELSE IF ~cfg.fcmServerKey
    THEN Result(FALSE, "FAILED", <<"FCM server key not configured">>)
    ELSE IF env = "ok"
    THEN Result(TRUE, "DELIVERED", NoMessage)
    ELSE IF env = "rejected"
    THEN Result(FALSE, "FAILED", <<"FCM API error">>)
    ELSE Thrown(<<"fetch failed">>)

\* FcmProvider.send
FcmSend(cfg, value, env) ==
    IF ~FcmValidate(value)
    THEN Result(FALSE, "FAILED", <<"Invalid FCM token format">>)
    ELSE IF ~cfg.fcmServerKey
    THEN Result(FALSE, "FAILED", <<"FCM server key not configured">>)
    ELSE IF env = "ok"
    THEN Result(TRUE, "DELIVERED", NoMessage)
    ELSE IF env = "rejected"
    THEN Result(FALSE, "FAILED", <<"FCM API error">>)
    ELSE Result(FALSE, "FAILED", <<"fetch failed">>)

\* FcmProvider.send reaches its fetch: the token is valid and the server
\* key is configured
FcmFetches(cfg, value) == FcmValidate(value) /\ cfg.fcmServerKey

\* EmailProvider.send reaches a fetch: only sendViaSendGrid has one, after
\* its test of the API key
EmailFetches(cfg, value) ==
    EmailValidate(value) /\ cfg.emailProvider = "sendgrid" /\ cfg.emailCreds

\* What a connection test answers and whether it made a network call
Tested(isConnected, network) == [isConnected |-> isConnected, network |-> network]

\* a connection test whose SendGrid probe does not look at the API key
\* before it fetches
EmailTestConnectionNoKeyCheck(cfg, env) ==
    CASE cfg.emailProvider = "console" -> Tested(TRUE, FALSE)
      [] cfg.emailProvider = "sendgrid" ->
            Tested(cfg.emailCreds /\ env = "ok", TRUE)
      [] cfg.emailProvider \in {"aws-ses", "nodemailer"} ->
            Tested(cfg.emailCreds, FALSE)
      [] OTHER -> Tested(FALSE, FALSE)

\* EmailProvider.testConnection, with testSendGridConnection,
\* testAwsSesConnection and testNodemailerConnection
EmailTestConnection(cfg, env) ==
    CASE cfg.emailProvider = "console" -> Tested(TRUE, FALSE)
      [] cfg.emailProvider = "sendgrid" ->
            IF ~cfg.emailCreds THEN Tested(FALSE, FALSE)
            ELSE Tested(env = "ok", TRUE)
      [] cfg.emailProvider \in {"aws-ses", "nodemailer"} ->
            Tested(cfg.emailCreds, FALSE)
      [] OTHER -> Tested(FALSE, FALSE)

\* FcmProvider.testConnection: without a server key false, otherwise the
\* success of a send of the test payload to the channel value
FcmTestConnection(cfg, value, env) ==
    IF ~cfg.fcmServerKey THEN Tested(FALSE, FALSE)
    ELSE Tested(env # "raise" /\ FcmSend(cfg, value, env).success,
                FcmFetches(cfg, value))

\* provider.testConnection(channelValue) of the provider of `type`
ProviderTestConnection(cfg, type, value, env) ==
    IF type = "EMAIL" THEN EmailTestConnection(cfg, env)
    ELSE FcmTestConnection(cfg, value, env)

\* provider.send(channelValue, payload, metadata) of the provider of `type`
ProviderSend(cfg, type, value, env) ==
    IF env = "raise" THEN Thrown(<<"handler fault">>)
    ELSE IF type = "EMAIL" THEN EmailSend(cfg, value, env)
    ELSE FcmSend(cfg, value, env)

\* sendNotification without the test of the looked-up provider: the call on
\* null throws and the catch reports that error
SendNotificationNoNullCheck(cfg, type, value, env) ==
    IF GetProvider(type) = NULL
    THEN Result(FALSE, "FAILED", <<"Cannot read properties of null">>)
    ELSE LET r == ProviderSend(cfg, type, value, env)
         IN  IF r.thrown
             THEN Result(FALSE, "FAILED", r.errorMessage)
             ELSE r

\* a sendNotification whose catch reports the fault of a handler as an
\* attempt to retry
SendNotificationRetryOnThrow(cfg, type, value, env) ==
    IF GetProvider(type) = NULL
    THEN Result(FALSE, "FAILED", <<"No provider available for channel type: ", type>>)
    ELSE LET r == ProviderSend(cfg, type, value, env)
         IN  IF r.thrown
             THEN Result(FALSE, "RETRY", r.errorMessage)
             ELSE r

\* NotificationProviderFactory.sendNotification
SendNotification(cfg, type, value, env) ==
    IF GetProvider(type) = NULL
    THEN Result(FALSE, "FAILED", <<"No provider available for channel type: ", type>>)
    ELSE LET r == ProviderSend(cfg, type, value, env)
         IN  IF r.thrown
             THEN Result(FALSE, "FAILED", r.errorMessage)
             ELSE r

\* -------------------------------------------------------------------- state
VARIABLES
    config,         \* the ConfigService values of this deployment
    channels,       \* notificationChannel rows, in insertion order
    nextChannelId,  \* ids handed out to channel rows so far
    chanOps,        \* channel management requests issued so far
    notifications,  \* notification rows, in insertion order (id = index)
    deliveries,     \* notificationDelivery rows, in insertion order
    nextDeliveryId, \* ids handed out to delivery rows so far
    req,            \* the createNotification requests, by request number
    handlerCalls,   \* <<request, channel id>> of every provider lookup + send
    response        \* what the last markAsRead / channel request returned

vars == <<config, channels, nextChannelId, chanOps, notifications,
          deliveries, nextDeliveryId, req, handlerCalls, response>>

Requests == 1..MaxRequests

Channel(id, userId, type, value, isActive, isVerified) ==
    [id |-> id, userId |-> userId, type |-> type, value |-> value,
     isActive |-> isActive, isVerified |-> isVerified]

\* Channel tables the service can find in the database when it starts
\* (rows written by prisma/seed.ts or by earlier runs; the enum admits
\* kinds that have no provider).
SeedChannels ==
    { << Channel(1, "student", "EMAIL", "a@b.c", TRUE, TRUE),
         Channel(2, "student", "FCM", "tokLong", TRUE, TRUE) >>,
      << Channel(1, "student", "EMAIL", "a@b.c", TRUE, TRUE),
         Channel(2, "student", "EMAIL", "x@y.z", TRUE, FALSE) >>,
      << Channel(1, "student", "WEBHOOK", "hook", TRUE, FALSE),
         Channel(2, "student", "EMAIL", "a@b.c", FALSE, FALSE),
         Channel(3, "teacher", "FCM", "tokSeed", TRUE, TRUE) >> }

\* CreateNotificationDto.channels: absent, or a list of kinds
NoList == [given |-> FALSE, kinds |-> <<>>]

KindList(kinds) == [given |-> TRUE, kinds |-> kinds]

KindLists ==
    { NoList, KindList(<<"EMAIL">>), KindList(<<"EMAIL", "FCM">>),
      KindList(<<"WEBHOOK">>), KindList(<<"EMAIL", "EMAIL">>) }

\* CreateNotificationDto.type: createNotification copies the category into
\* the row and never looks at it
RequestTypes == {"ANNOUNCEMENT"}

\* A createNotification request: its position, its arguments and its local
\* variables; `handled` is the history of what the handler of each target
\* it has invoked answered (success or not), which the code does not keep.
IdleRequest ==
    [pc |-> "idle", senderId |-> NULL, recipientId |-> NULL, type |-> NULL,
     channels |-> NoList,
     recipientChannels |-> <<>>, notificationId |-> 0, i |-> 0,
     deliveryResults |-> <<>>, handled |-> <<>>,
     notificationStatus |-> NULL, error |-> NULL]

NoResponse ==
    [op |-> "none", userId |-> NULL, id |-> 0, result |-> NULL, prev |-> NULL,
     status |-> NULL]

Init ==
    /\ config \in Configs
    /\ channels \in SeedChannels
    /\ nextChannelId = Len(channels) + 1
    /\ chanOps = 0
    /\ notifications = <<>>
    /\ deliveries = <<>>
    /\ nextDeliveryId = 1
    /\ req = [r \in Requests |-> IdleRequest]
    /\ handlerCalls = {}
    /\ response = NoResponse

\* ------------------------------------------------------------ store queries
Range(s) == {s[k] : k \in 1..Len(s)}

\* a lookup that never answers null
UserAlwaysFound(id) == TRUE

\* prisma.user.findUnique({ where: { id } })
UserExists(id) == id \in Users

\* include: { notificationChannels: { where: { isActive: true } } }
ActiveChannelsOf(rows, userId) ==
    SelectSeq(rows, LAMBDA c : c.userId = userId /\ c.isActive)

\* a lookup of the channel by id alone, without the owner
FindChannelAnyOwner(rows, channelId, userId) ==
    {c \in Range(rows) : c.id = channelId}

\* prisma.notificationChannel.findFirst({ where: { id, userId } })
FindChannel(rows, channelId, userId) ==
    {c \in Range(rows) : c.id = channelId /\ c.userId = userId}

\* the row of a notification id, if any
NotificationIds == 1..Len(notifications)

\* a lookup by id alone, without the recipient
FindNotificationAnyRecipient(rows, notificationId, userId) ==
    {n \in 1..Len(rows) : n = notificationId}

\* prisma.notification.findFirst({ where: { id, recipientId } })
FindNotification(rows, notificationId, userId) ==
    {n \in 1..Len(rows) : n = notificationId /\ rows[n].recipientId = userId}

\* NotificationDelivery.channel is a required relation: a delivery row can
\* only be inserted for a channel row that exists
ChannelRowExists(rows, channelId) == \E c \in Range(rows) : c.id = channelId

\* ------------------------------------------------------- createNotification
\* NotificationsService.getDefaultChannels
getDefaultChannels(userChannels) ==
    [k \in 1..Len(userChannels) |-> userChannels[k].type]

\* channels || this.getDefaultChannels(recipient.notificationChannels):
\* an absent list is falsy, a list (the empty one too) is truthy
ChannelsToUse(dto, recipientChannels) ==
    IF dto.given THEN dto.kinds ELSE getDefaultChannels(recipientChannels)

\* a filter that keeps the first channel of each kind only
TargetChannelsOnePerKind(recipientChannels, dto) ==
    LET kinds == Range(ChannelsToUse(dto, recipientChannels))
        firstOfKind(k) == \A j \in 1..(k - 1) :
                              recipientChannels[j].type # recipientChannels[k].type
        keep == {k \in 1..Len(recipientChannels) :
                    recipientChannels[k].type \in kinds /\ firstOfKind(k)}
        pick[k \in 0..Len(recipientChannels)] ==
            IF k = 0 THEN <<>>
            ELSE IF k \in keep THEN Append(pick[k - 1], recipientChannels[k])
            ELSE pick[k - 1]
    IN  pick[Len(recipientChannels)]

\* a selection that walks the kind list and takes the channels of each
\* listed kind in turn
TargetChannelsPerListedKind(recipientChannels, dto) ==
    LET kinds == ChannelsToUse(dto, recipientChannels)
        pick[k \in 0..Len(kinds)] ==
            IF k = 0 THEN <<>>
            ELSE pick[k - 1] \o SelectSeq(recipientChannels,
                                          LAMBDA c : c.type = kinds[k])
    IN  pick[Len(kinds)]

\* recipient.notificationChannels.filter(channel =>
\*     channelsToUse.includes(channel.type))
TargetChannels(recipientChannels, dto) ==
    SelectSeq(recipientChannels,
              LAMBDA c : c.type \in Range(ChannelsToUse(dto, recipientChannels)))

\* ReduceStatus with the partial-success branch answering FAILED
ReduceStatusAllOrNothing(deliveryResults) ==
    IF /\ Len(deliveryResults) > 0
       /\ \A k \in 1..Len(deliveryResults) : deliveryResults[k].success
    THEN "SENT"
    ELSE "FAILED"

\* ReduceStatus deciding on the absence of failures alone
ReduceStatusNoFailureIsSent(deliveryResults) ==
    IF \E k \in 1..Len(deliveryResults) : ~deliveryResults[k].success
    THEN "FAILED"
    ELSE "SENT"

\* ReduceStatus answering SENT as soon as there is any result
ReduceStatusAnyResultIsSent(deliveryResults) ==
    IF Len(deliveryResults) > 0 THEN "SENT" ELSE "FAILED"

\* the reduction of the delivery results into the notification status
ReduceStatus(deliveryResults) ==
    LET hasSuccessfulDeliveries == \E k \in 1..Len(deliveryResults) :
                                       deliveryResults[k].success
        hasFailedDeliveries == \E k \in 1..Len(deliveryResults) :
                                       ~deliveryResults[k].success
    IN  IF hasSuccessfulDeliveries /\ ~hasFailedDeliveries THEN "SENT"
        ELSE IF hasSuccessfulDeliveries /\ hasFailedDeliveries THEN "SENT"
        ELSE "FAILED"

\* a controller without the role check
MayCreateAnyone(userId) == TRUE

\* NotificationsController.createNotification: the role check
MayCreate(userId) == Role(userId) \in {"TEACHER", "ADMIN"}

\* POST /notifications up to the recipient lookup: the controller's role
\* check, then findUnique of the recipient with the active channels.
createNotification_find(r) ==
    /\ req[r].pc = "idle"
    /\ r > 1 => req[r - 1].pc # "idle"
    /\ \E senderId \in Users, recipientId \in Users \cup {Ghost}, dto \in KindLists,
          type \in RequestTypes :
          LET in == [req[r] EXCEPT !.senderId = senderId,
                                   !.recipientId = recipientId,
                                   !.type = type,
                                   !.channels = dto]
          IN  req' = [req EXCEPT ![r] =
                  IF ~MayCreate(senderId)
                  THEN [req[r] EXCEPT !.pc = "error", !.error = "Forbidden",
                                      !.senderId = senderId]
                  ELSE IF ~UserExists(recipientId)
                  THEN [in EXCEPT !.pc = "error", !.error = "NotFound"]
                  ELSE [in EXCEPT !.pc = "create",
                                  !.recipientChannels =
                                      ActiveChannelsOf(channels, recipientId)]]
    /\ UNCHANGED <<config, channels, nextChannelId, chanOps,
                   notifications, deliveries, nextDeliveryId, handlerCalls,
                   response>>

\* prisma.notification.create with status PENDING
createNotification_create(r) ==
    /\ req[r].pc = "create"
    /\ notifications' = Append(notifications,
           [senderId |-> req[r].senderId, recipientId |-> req[r].recipientId,
            type |-> req[r].type, status |-> "PENDING"])
    /\ req' = [req EXCEPT ![r] =
           [@ EXCEPT !.pc = "send",
                     !.notificationId = Len(notifications) + 1,
                     !.i = 1]]
    /\ UNCHANGED <<config, channels, nextChannelId, chanOps,
                   deliveries, nextDeliveryId, handlerCalls, response>>

\* the second argument of sendToChannels: the channels of the snapshot whose
\* kind is among channelsToUse
Targets(r) == TargetChannels(req[r].recipientChannels, req[r].channels)

\* a delivery row that stamps sentAt whatever the result
DeliveryOfResultAlwaysSentAt(id, notificationId, channelId, result) ==
    [id |-> id, notificationId |-> notificationId, channelId |-> channelId,
     status |-> result.status,
     sentAt |-> SET,
     deliveredAt |-> IF result.status = "DELIVERED" THEN SET ELSE NULL,
     failedAt |-> IF ~result.success THEN SET ELSE NULL,
     errorMessage |-> result.errorMessage,
     retryCount |-> 0]

\* the delivery row of a result (sendToChannels, the try branch)
DeliveryOfResult(id, notificationId, channelId, result) ==
    [id |-> id, notificationId |-> notificationId, channelId |-> channelId,
     status |-> result.status,
     sentAt |-> IF result.success THEN SET ELSE NULL,
     deliveredAt |-> IF result.status = "DELIVERED" THEN SET ELSE NULL,
     failedAt |-> IF ~result.success THEN SET ELSE NULL,
     errorMessage |-> result.errorMessage,
     retryCount |-> 0]

\* the delivery row written by the catch branch of sendToChannels
FailedDelivery(id, notificationId, channelId, message) ==
    [id |-> id, notificationId |-> notificationId, channelId |-> channelId,
     status |-> "FAILED", sentAt |-> NULL, deliveredAt |-> NULL,
     failedAt |-> SET, errorMessage |-> message, retryCount |-> 0]

\* an entry of deliveryResults
Pushed(result, deliveryId, channel) ==
    [success |-> result.success, status |-> result.status,
     errorMessage |-> result.errorMessage, deliveryId |-> deliveryId,
     channelId |-> channel.id, channelType |-> channel.type,
     channelValue |-> channel.value, retryCount |-> 0]

\* an iteration without the two try / catch blocks around the handler: a
\* fault raised by the handler leaves sendToChannels
AttemptNoCatch(cfg, channel, env, storeFault, rowOk) ==
    LET result == SendNotification(cfg, channel.type, channel.value, env)
    IN  IF GetProvider(channel.type) # NULL /\ env = "raise"
        THEN [path |-> "throw", result |-> result]
        ELSE IF rowOk /\ ~storeFault
        THEN [path |-> "try", result |-> result]
        ELSE IF rowOk
        THEN [path |-> "catch",
              result |-> Result(FALSE, "FAILED", <<"store fault">>)]
        ELSE [path |-> "throw",
              result |-> Result(FALSE, "FAILED", <<"store fault">>)]

\* The body of one iteration of the loop of sendToChannels, as the path it
\* takes: "try" (the handler's result is persisted), "catch" (something in
\* the try block threw, a FAILED row is persisted) or "throw" (the insert of
\* the catch block threw too, and the exception leaves sendToChannels).
\* The first insert throws on a store fault or when the channel row is gone;
\* the second when the channel row is gone.
Attempt(cfg, channel, env, storeFault, rowOk) ==
    LET result == SendNotification(cfg, channel.type, channel.value, env)
    IN  IF rowOk /\ ~storeFault
        THEN [path |-> "try", result |-> result]
        ELSE IF rowOk
        THEN [path |-> "catch",
              result |-> Result(FALSE, "FAILED", <<"store fault">>)]
        ELSE [path |-> "throw",
              result |-> Result(FALSE, "FAILED", <<"store fault">>)]

\* an iteration whose catch block pushes the failure without writing the
\* FAILED delivery row
sendToChannels_stepNoFallbackRow(r) ==
    /\ req[r].pc = "send"
    /\ req[r].i <= Len(Targets(r))
    /\ \E env \in HandlerEnv, storeFault \in BOOLEAN :
          LET channel == Targets(r)[req[r].i]
              handlerResult == SendNotification(config, channel.type,
                                                channel.value, env)
              a == Attempt(config, channel, env, storeFault,
                           ChannelRowExists(channels, channel.id))
          IN  /\ handlerCalls' = handlerCalls \cup {<<r, channel.id>>}
              /\ IF a.path = "try"
                 THEN /\ deliveries' = Append(deliveries,
                            DeliveryOfResult(nextDeliveryId, req[r].notificationId,
                                             channel.id, a.result))
                      /\ nextDeliveryId' = nextDeliveryId + 1
                 ELSE UNCHANGED <<deliveries, nextDeliveryId>>
              /\ req' = [req EXCEPT ![r] =
                    [@ EXCEPT !.i = @ + 1,
                              !.handled = Append(@, handlerResult.success),
                              !.deliveryResults = Append(@,
                                  Pushed(a.result, nextDeliveryId, channel))]]
    /\ UNCHANGED <<config, channels, nextChannelId, chanOps,
                   notifications, response>>

\* One iteration of the loop of sendToChannels: the handler is looked up and
\* invoked, and the outcome is persisted.
sendToChannels_step(r) ==
    /\ req[r].pc = "send"
    /\ req[r].i <= Len(Targets(r))
    /\ \E env \in HandlerEnv, storeFault \in BOOLEAN :
          LET channel == Targets(r)[req[r].i]
              nid == req[r].notificationId
              handlerResult == SendNotification(config, channel.type,
                                                channel.value, env)
              a == Attempt(config, channel, env, storeFault,
                           ChannelRowExists(channels, channel.id))
          IN  /\ handlerCalls' = handlerCalls \cup {<<r, channel.id>>}
              /\ IF a.path = "try"
                 THEN /\ deliveries' = Append(deliveries,
                            DeliveryOfResult(nextDeliveryId, nid, channel.id,
                                             a.result))
                      /\ nextDeliveryId' = nextDeliveryId + 1
                      /\ req' = [req EXCEPT ![r] =
                            [@ EXCEPT !.i = @ + 1,
                                      !.handled = Append(@, handlerResult.success),
                                      !.deliveryResults = Append(@,
                                          Pushed(a.result, nextDeliveryId, channel))]]
                 ELSE IF a.path = "catch"
                 THEN /\ deliveries' = Append(deliveries,
                            FailedDelivery(nextDeliveryId, nid, channel.id,
                                           a.result.errorMessage))
                      /\ nextDeliveryId' = nextDeliveryId + 1
                      /\ req' = [req EXCEPT ![r] =
                            [@ EXCEPT !.i = @ + 1,
                                      !.handled = Append(@, handlerResult.success),
                                      !.deliveryResults = Append(@,
                                          Pushed(a.result, nextDeliveryId, channel))]]
                 ELSE /\ req' = [req EXCEPT ![r] =
                            [@ EXCEPT !.pc = "error", !.error = "Internal",
                                      !.handled = Append(@, handlerResult.success)]]
                      /\ UNCHANGED <<deliveries, nextDeliveryId>>
    /\ UNCHANGED <<config, channels, nextChannelId, chanOps,
                   notifications, response>>

\* a status write whose test of the loop counter is off by one: it waits
\* for a target that does not exist
createNotification_updateOffByOne(r) ==
    /\ req[r].pc = "send"
    /\ req[r].i > Len(Targets(r)) + 1
    /\ LET notificationStatus == ReduceStatus(req[r].deliveryResults)
       IN  /\ notifications' = [notifications EXCEPT
                  ![req[r].notificationId].status = notificationStatus]
           /\ req' = [req EXCEPT ![r] =
                  [@ EXCEPT !.pc = "done",
                            !.notificationStatus = notificationStatus]]
    /\ UNCHANGED <<config, channels, nextChannelId, chanOps,
                   deliveries, nextDeliveryId, handlerCalls, response>>

\* a status write that does not wait for the loop: it reduces the results
\* gathered so far
createNotification_updateEarly(r) ==
    /\ req[r].pc = "send"
    /\ LET notificationStatus == ReduceStatus(req[r].deliveryResults)
       IN  /\ notifications' = [notifications EXCEPT
                  ![req[r].notificationId].status = notificationStatus]
           /\ req' = [req EXCEPT ![r] =
                  [@ EXCEPT !.pc = "done",
                            !.notificationStatus = notificationStatus]]
    /\ UNCHANGED <<config, channels, nextChannelId, chanOps,
                   deliveries, nextDeliveryId, handlerCalls, response>>

\* the status write after the loop, and the return of the response
createNotification_update(r) ==
    /\ req[r].pc = "send"
    /\ req[r].i > Len(Targets(r))
    /\ LET notificationStatus == ReduceStatus(req[r].deliveryResults)
       IN  /\ notifications' = [notifications EXCEPT
                  ![req[r].notificationId].status = notificationStatus]
           /\ req' = [req EXCEPT ![r] =
                  [@ EXCEPT !.pc = "done",
                            !.notificationStatus = notificationStatus]]
    /\ UNCHANGED <<config, channels, nextChannelId, chanOps,
                   deliveries, nextDeliveryId, handlerCalls, response>>

\* ------------------------------------------------------ getUserNotifications
\* The view of one notification row: its id, status, category, recipient and
\* its delivery rows.
NotificationView(n) ==
    [id |-> n, status |-> notifications[n].status, type |-> notifications[n].type,
     recipientId |-> notifications[n].recipientId,
     deliveries |-> {deliveries[j] : j \in
                        {j \in 1..Len(deliveries) :
                            deliveries[j].notificationId = n}}]

\* a listing that leaves the recipient out of the where clause
getUserNotificationsOfAnyone(userId, status, type) ==
    LET matches(n) ==
            /\ status # NULL => notifications[n].status = status
            /\ type # NULL => notifications[n].type = type
        pick[k \in 0..Len(notifications)] ==
            IF k = 0 THEN <<>>
            ELSE IF matches(k) THEN <<NotificationView(k)>> \o pick[k - 1]
            ELSE pick[k - 1]
    IN  pick[Len(notifications)]

\* NotificationsService.getUserNotifications: the notifications addressed to
\* the user, of the given status and category when they are given, newest
\* first (rows are kept in creation order, so the newest has the highest
\* index); it writes nothing.
getUserNotifications(userId, status, type) ==
    LET matches(n) ==
            /\ notifications[n].recipientId = userId
            /\ status # NULL => notifications[n].status = status
            /\ type # NULL => notifications[n].type = type
        pick[k \in 0..Len(notifications)] ==
            IF k = 0 THEN <<>>
            ELSE IF matches(k) THEN <<NotificationView(k)>> \o pick[k - 1]
            ELSE pick[k - 1]
    IN  pick[Len(notifications)]

\* ---------------------------------------------------------------- markAsRead
\* a markAsRead that flips a READ notification back to SENT
markAsReadToggle(userId, notificationId) ==
    /\ IF FindNotification(notifications, notificationId, userId) = {}
       THEN /\ response' = [op |-> "markAsRead", userId |-> userId,
                            id |-> notificationId, result |-> "NotFound",
                            prev |-> "NULL", status |-> "NULL"]
            /\ UNCHANGED notifications
       ELSE /\ notifications' = [notifications EXCEPT
                  ![notificationId].status = IF @ = "READ" THEN "SENT" ELSE "READ"]
            /\ response' = [op |-> "markAsRead", userId |-> userId,
                            id |-> notificationId, result |-> "OK",
                            prev |-> notifications[notificationId].status,
                            status |-> notifications'[notificationId].status]
    /\ UNCHANGED <<config, channels, nextChannelId, chanOps,
                   deliveries, nextDeliveryId, req, handlerCalls>>

\* `response` keeps what the call returned: the outcome, the status of the
\* returned row and (prev) the status the row had when the call found it.
markAsRead(userId, notificationId) ==
    /\ IF FindNotification(notifications, notificationId, userId) = {}
       THEN /\ response' = [op |-> "markAsRead", userId |-> userId,
                            id |-> notificationId, result |-> "NotFound",
                            prev |-> NULL, status |-> NULL]
            /\ UNCHANGED notifications
       ELSE /\ notifications' = [notifications EXCEPT
                  ![notificationId].status = "READ"]
            /\ response' = [op |-> "markAsRead", userId |-> userId,
                            id |-> notificationId, result |-> "OK",
                            prev |-> notifications[notificationId].status,
                            status |-> notifications'[notificationId].status]
    /\ UNCHANGED <<config, channels, nextChannelId, chanOps,
                   deliveries, nextDeliveryId, req, handlerCalls>>

\* ------------------------------------------------------- channel management
\* The referential action of NotificationDelivery.channel is set by the
\* Prisma schema, which is not among the sources.  The specification has
\* delivery records never deleted by the core, so the delete of a channel is
\* refused while delivery rows refer to it (Prisma's default for a required
\* relation).
OnDeleteActions == {"Restrict"}

\* an optional boolean of a DTO
OptionalBool == {"undefined", "true", "false"}

\* x ?? dflt, and Prisma's "undefined leaves the column alone"
OrElse(x, dflt) == IF x = "undefined" THEN dflt ELSE x = "true"

\* the (kind, address) pairs channel requests are made with
ChannelInputs ==
    { <<"EMAIL", "a@b.c">>, <<"EMAIL", "nomail">>, <<"FCM", "tokLong">>,
      <<"FCM", "tokSeed">>, <<"WEBHOOK", "hook">> }

ChannelResponse(op, userId, id, result) ==
    [op |-> op, userId |-> userId, id |-> id, result |-> result, prev |-> NULL,
     status |-> NULL]

\* what createNotificationChannel answered, with the kind and the address
\* it was called with
CreateResponse(userId, id, result, type, value) ==
    [op |-> "createChannel", userId |-> userId, id |-> id, result |-> result,
     prev |-> NULL, status |-> NULL, type |-> type, value |-> value]

\* a channel table without the unique key
TripleNeverTaken(rows, userId, type, value) == FALSE

\* the compound unique key userId_type_value of notificationChannel
TripleTaken(rows, userId, type, value) ==
    \E c \in Range(rows) : c.userId = userId /\ c.type = type /\ c.value = value

createNotificationChannel(userId, type, value, isActive) ==
    /\ IF ~ValidateChannelValue(type, value)
       THEN /\ response' = CreateResponse(userId, 0, "Invalid", type, value)
            /\ UNCHANGED <<channels, nextChannelId>>
       ELSE IF TripleTaken(channels, userId, type, value)
       THEN /\ response' = CreateResponse(userId, 0, "Conflict", type, value)
            /\ UNCHANGED <<channels, nextChannelId>>
       ELSE /\ channels' = Append(channels,
                  Channel(nextChannelId, userId, type, value,
                          OrElse(isActive, TRUE), FALSE))
            /\ nextChannelId' = nextChannelId + 1
            /\ response' = CreateResponse(userId, nextChannelId, "OK",
                                          type, value)
    /\ UNCHANGED <<config, notifications, deliveries, nextDeliveryId,
                   req, handlerCalls>>

\* an update whose write is addressed by the owner instead of the row id:
\* it writes every channel of the caller
updateNotificationChannelOfOwner(userId, channelId, isActive, isVerified) ==
    /\ IF FindChannel(channels, channelId, userId) = {}
       THEN /\ response' = ChannelResponse("updateChannel", userId, channelId,
                                           "NotFound")
            /\ UNCHANGED channels
       ELSE /\ channels' = [k \in 1..Len(channels) |->
                  IF channels[k].userId = userId
                  THEN [channels[k] EXCEPT
                           !.isActive = OrElse(isActive, @),
                           !.isVerified = OrElse(isVerified, @)]
                  ELSE channels[k]]
            /\ response' = ChannelResponse("updateChannel", userId, channelId, "OK")
    /\ UNCHANGED <<config, nextChannelId, notifications, deliveries,
                   nextDeliveryId, req, handlerCalls>>

\* NotificationsService.updateNotificationChannel (the row has no column
\* for metadata in this model)
updateNotificationChannel(userId, channelId, isActive, isVerified) ==
    /\ IF FindChannel(channels, channelId, userId) = {}
       THEN /\ response' = ChannelResponse("updateChannel", userId, channelId,
                                           "NotFound")
            /\ UNCHANGED channels
       ELSE /\ channels' = [k \in 1..Len(channels) |->
                  IF channels[k].id = channelId
                  THEN [channels[k] EXCEPT
                           !.isActive = OrElse(isActive, @),
                           !.isVerified = OrElse(isVerified, @)]
                  ELSE channels[k]]
            /\ response' = ChannelResponse("updateChannel", userId, channelId, "OK")
    /\ UNCHANGED <<config, nextChannelId, notifications, deliveries,
                   nextDeliveryId, req, handlerCalls>>

deleteNotificationChannel(userId, channelId, onDelete) ==
    /\ IF FindChannel(channels, channelId, userId) = {}
       THEN /\ response' = ChannelResponse("deleteChannel", userId, channelId,
                                           "NotFound")
            /\ UNCHANGED <<channels, deliveries>>
       ELSE IF onDelete = "Restrict"
               /\ \E k \in 1..Len(deliveries) : deliveries[k].channelId = channelId
       THEN /\ response' = ChannelResponse("deleteChannel", userId, channelId,
                                           "Internal")
            /\ UNCHANGED <<channels, deliveries>>
       ELSE /\ channels' = SelectSeq(channels, LAMBDA c : c.id # channelId)
            /\ deliveries' = SelectSeq(deliveries,
                                       LAMBDA d : d.channelId # channelId)
            /\ response' = ChannelResponse("deleteChannel", userId, channelId, "OK")
    /\ UNCHANGED <<config, nextChannelId, notifications,
                   nextDeliveryId, req, handlerCalls>>

\* what testChannel answered: the outcome, and for a test that ran the
\* provider's answer and whether the provider made a network call
TestResponse(userId, id, result, tested) ==
    [op |-> "testChannel", userId |-> userId, id |-> id, result |-> result,
     prev |-> NULL, status |-> NULL, isConnected |-> tested.isConnected,
     network |-> tested.network]

\* NotificationsService.testChannel; the provider's testConnection is
\* entered in handlerCalls under request number 0
testChannel(userId, channelId) ==
    /\ IF FindChannel(channels, channelId, userId) = {}
       THEN /\ response' = TestResponse(userId, channelId, "NotFound",
                                        Tested(FALSE, FALSE))
            /\ UNCHANGED handlerCalls
       ELSE LET channel == CHOOSE c \in FindChannel(channels, channelId, userId) : TRUE
            IN  IF GetProvider(channel.type) = NULL
                THEN /\ response' = TestResponse(userId, channelId, "Internal",
                                                 Tested(FALSE, FALSE))
                     /\ UNCHANGED handlerCalls
                ELSE \E env \in HandlerEnv :
                        /\ response' = TestResponse(userId, channelId, "OK",
                               ProviderTestConnection(config, channel.type,
                                                      channel.value, env))
                        /\ handlerCalls' = handlerCalls \cup {<<0, channelId>>}
    /\ UNCHANGED <<config, channels, nextChannelId, notifications, deliveries,
                   nextDeliveryId, req>>

\* ------------------------------------------------------------ specification
\* one more channel management request is issued, of at most `max`
ChannelRequest(max) ==
    /\ chanOps < max
    /\ chanOps' = chanOps + 1

Next ==
    \/ \E r \in Requests : createNotification_find(r)
    \/ \E r \in Requests : createNotification_create(r)
    \/ \E r \in Requests : sendToChannels_step(r)
    \/ \E r \in Requests : createNotification_update(r)
    \/ \E u \in Users, n \in 1..(MaxRequests + 1) : markAsRead(u, n)
    \/ \E u \in Users, in \in ChannelInputs, a \in OptionalBool :
          ChannelRequest(MaxChannelOps)
          /\ createNotificationChannel(u, in[1], in[2], a)
    \/ \E u \in Users, c \in 1..nextChannelId, a \in OptionalBool,
          v \in OptionalBool :
          ChannelRequest(MaxChannelOps)
          /\ updateNotificationChannel(u, c, a, v)
    \/ \E u \in Users, c \in 1..nextChannelId, a \in OnDeleteActions :
          ChannelRequest(MaxChannelOps)
          /\ deleteNotificationChannel(u, c, a)
    \/ \E u \in Users, c \in 1..nextChannelId :
          ChannelRequest(MaxChannelOps) /\ testChannel(u, c)

Spec == Init /\ [][Next]_vars

\* the deployment without mail credentials: EMAIL_PROVIDER unset
ConsoleInit ==
    /\ Init
    /\ config.emailProvider = "console"

\* The channel endpoints alone, called with every kind of the enum and an
\* address of each syntax.
ManageInputs ==
    NotificationChannelType \X {"a@b.c", "nomail", "tokLong", "hook"}

ChannelNext ==
    \/ \E u \in Users, in \in ManageInputs, a \in OptionalBool :
          ChannelRequest(MaxManageOps)
          /\ createNotificationChannel(u, in[1], in[2], a)
    \/ \E u \in Users, c \in 1..nextChannelId, a \in OptionalBool,
          v \in OptionalBool :
          ChannelRequest(MaxManageOps)
          /\ updateNotificationChannel(u, c, a, v)
    \/ \E u \in Users, c \in 1..nextChannelId, a \in OnDeleteActions :
          ChannelRequest(MaxManageOps)
          /\ deleteNotificationChannel(u, c, a)

ChannelSpec == ConsoleInit /\ [][ChannelNext]_vars

\* A round together with the requests that touch what its steps read or
\* write: of what other requests write, the steps of createNotification read
\* only whether the channel row of a target still exists, which only
\* deleteNotificationChannel changes, and they overwrite the status that
\* markAsRead writes.
RoundNext ==
    \/ \E r \in Requests : createNotification_find(r)
    \/ \E r \in Requests : createNotification_create(r)
    \/ \E r \in Requests : sendToChannels_step(r)
    \/ \E r \in Requests : createNotification_update(r)
    \/ \E u \in Users, n \in 1..(MaxRequests + 1) : markAsRead(u, n)
    \/ \E u \in Users, c \in 1..nextChannelId, a \in OnDeleteActions :
          ChannelRequest(MaxChannelOps)
          /\ deleteNotificationChannel(u, c, a)

\* The continuation of an await runs once the awaited call has settled: a
\* request that can take its next step eventually takes it.
FairSpec ==
    /\ ConsoleInit
    /\ [][RoundNext]_vars
    /\ \A r \in Requests :
          /\ WF_vars(createNotification_create(r))
          /\ WF_vars(sendToChannels_step(r))
          /\ WF_vars(createNotification_update(r))

\* ------------------------------------------------- the providers on their own
\* The two registered providers called directly, under every configuration
\* of EMAIL_PROVIDER, of the selected email provider's credentials and of
\* FCM_SERVER_KEY, with every address and every behaviour of the network.
ProviderConfigs ==
    [emailProvider : {"console", "sendgrid", "aws-ses", "nodemailer", "other"},
     emailCreds : BOOLEAN, fcmServerKey : BOOLEAN]

ProviderInit ==
    /\ config \in ProviderConfigs
    /\ channels = <<>>
    /\ nextChannelId = 1
    /\ chanOps = 0
    /\ notifications = <<>>
    /\ deliveries = <<>>
    /\ nextDeliveryId = 1
    /\ req = [r \in Requests |-> IdleRequest]
    /\ handlerCalls = {}
    /\ response = NoResponse

\* provider.send(value, payload): `response` keeps the arguments, what came
\* back (a result, or a rejection) and whether send got as far as its fetch
provider_send(type, value, env) ==
    /\ response' =
          [op |-> "send", userId |-> NULL, id |-> 0, result |-> NULL,
           prev |-> NULL, status |-> NULL, type |-> type, value |-> value,
           env |-> env,
           outcome |-> ProviderSend(config, type, value, env),
           network |-> IF type = "EMAIL" THEN EmailFetches(config, value)
                       ELSE FcmFetches(config, value)]
    /\ UNCHANGED <<config, channels, nextChannelId, chanOps, notifications,
                   deliveries, nextDeliveryId, req, handlerCalls>>

\* provider.testConnection(value)
provider_testConnection(type, value, env) ==
    /\ response' =
          [op |-> "testConnection", userId |-> NULL, id |-> 0, result |-> NULL,
           prev |-> NULL, status |-> NULL, type |-> type, value |-> value,
           env |-> env,
           tested |-> ProviderTestConnection(config, type, value, env)]
    /\ UNCHANGED <<config, channels, nextChannelId, chanOps, notifications,
                   deliveries, nextDeliveryId, req, handlerCalls>>

ProviderNext ==
    \/ \E type \in RegisteredKinds, value \in Addresses, env \in HandlerEnv :
          provider_send(type, value, env)
    \/ \E type \in RegisteredKinds, value \in Addresses, env \in HandlerEnv :
          provider_testConnection(type, value, env)

ProviderSpec == ProviderInit /\ [][ProviderNext]_vars

\* ---------------------------------------------------------------- the listing
\* GET /notifications on a notification table that already has rows: those of
\* prisma/seed.ts and of earlier rounds.
ListingLen == 3

ListingTypes == {"ANNOUNCEMENT", "GRADE"}

ListingTables ==
    [1..ListingLen ->
        [senderId : {"teacher"}, recipientId : Users, type : ListingTypes,
         status : NotificationStatus]]

ListingInit ==
    /\ config \in {c \in Configs : c.emailProvider = "console"}
    /\ channels = <<>>
    /\ nextChannelId = 1
    /\ chanOps = 0
    /\ notifications \in ListingTables
    /\ deliveries = <<>>
    /\ nextDeliveryId = 1
    /\ req = [r \in Requests |-> IdleRequest]
    /\ handlerCalls = {}
    /\ response = NoResponse

\* NotificationsController.getUserNotifications: `response` keeps the query
\* and the list that is returned
getUserNotifications_request(userId, status, type) ==
    /\ response' =
          [op |-> "getUserNotifications", userId |-> userId, id |-> 0,
           result |-> "OK", prev |-> NULL, status |-> status, type |-> type,
           list |-> getUserNotifications(userId, status, type)]
    /\ UNCHANGED <<config, channels, nextChannelId, chanOps, notifications,
                   deliveries, nextDeliveryId, req, handlerCalls>>

ListingNext ==
    \E u \in Users, status \in NotificationStatus \cup {NULL},
       type \in ListingTypes \cup {NULL} :
        getUserNotifications_request(u, status, type)

ListingSpec == ListingInit /\ [][ListingNext]_vars

\* ------------------------------------------------------------ FCM batching
\* lengths of the arrays and chunk sizes chunkArray is called with
ChunkMaxLen == 5
ChunkMaxSize == 4

\* const batchSize = 500
BatchSize == 500

ChunkItems == {"a", "b"}

ChunkArrays == UNION {[1..n -> ChunkItems] : n \in 0..ChunkMaxLen}

\* the numbers of tokens sendToMultipleTokens is called with, around the
\* multiples of the batch size; the tokens are 1..n
TokenCounts ==
    {0, 1, BatchSize - 1, BatchSize, BatchSize + 1, 2 * BatchSize,
     2 * BatchSize + 1}

\* array.slice(start, end) with 0 <= start <= end: the elements at the
\* 0-based positions start .. end-1 that exist
Slice(array, start, end) ==
    SubSeq(array, start + 1, IF end < Len(array) THEN end ELSE Len(array))

\* a chunking whose slice takes its end position too
RECURSIVE chunkLoopInclusive(_, _, _, _)
chunkLoopInclusive(array, size, i, chunks) ==
    IF i < Len(array)
    THEN chunkLoopInclusive(array, size, i + size,
                            Append(chunks, Slice(array, i, i + size + 1)))
    ELSE chunks

chunkArrayInclusive(array, size) == chunkLoopInclusive(array, size, 0, <<>>)

\* for (let i = 0; i < array.length; i += size)
\*     chunks.push(array.slice(i, i + size))
RECURSIVE chunkLoop(_, _, _, _)
chunkLoop(array, size, i, chunks) ==
    IF i < Len(array)
    THEN chunkLoop(array, size, i + size,
                   Append(chunks, Slice(array, i, i + size)))
    ELSE chunks

\* FcmProvider.chunkArray
chunkArray(array, size) == chunkLoop(array, size, 0, <<>>)

ChunkInit ==
    /\ config \in Configs
    /\ channels = <<>>
    /\ nextChannelId = 1
    /\ chanOps = 0
    /\ notifications = <<>>
    /\ deliveries = <<>>
    /\ nextDeliveryId = 1
    /\ req = [r \in Requests |-> IdleRequest]
    /\ handlerCalls = {}
    /\ response = NoResponse

\* this.chunkArray(array, size): `response` keeps the arguments and the
\* chunks returned
chunkArray_call(array, size) ==
    /\ response' =
          [op |-> "chunkArray", userId |-> NULL, id |-> 0, result |-> NULL,
           prev |-> NULL, status |-> NULL, array |-> array, size |-> size,
           chunks |-> chunkArray(array, size)]
    /\ UNCHANGED <<config, channels, nextChannelId, chanOps, notifications,
                   deliveries, nextDeliveryId, req, handlerCalls>>

\* FcmProvider.sendToMultipleTokens: `response` keeps the tokens and the
\* batches handed to sendBatch, in the order of the loop
sendToMultipleTokens(tokens) ==
    /\ response' =
          [op |-> "sendToMultipleTokens", userId |-> NULL, id |-> 0,
           result |-> NULL, prev |-> NULL, status |-> NULL,
           tokens |-> tokens, batches |-> chunkArray(tokens, BatchSize)]
    /\ UNCHANGED <<config, channels, nextChannelId, chanOps, notifications,
                   deliveries, nextDeliveryId, req, handlerCalls>>

ChunkNext ==
    \/ \E array \in ChunkArrays, size \in 1..ChunkMaxSize :
          chunkArray_call(array, size)
    \/ \E n \in TokenCounts : sendToMultipleTokens([t \in 1..n |-> t])

ChunkSpec == ChunkInit /\ [][ChunkNext]_vars

\* ------------------------------------------------------------------- claims
AnySuccess(deliveryResults) ==
    \E k \in 1..Len(deliveryResults) : deliveryResults[k].success

AnyFailure(deliveryResults) ==
    \E k \in 1..Len(deliveryResults) : ~deliveryResults[k].success

\* the step of request r on which createNotification writes the aggregate
\* status and returns
Completes(r) == req[r].pc = "send" /\ req'[r].pc = "done"

RowsOf(notificationId) ==
    {k \in 1..Len(deliveries) : deliveries[k].notificationId = notificationId}

\* C1: when a round of createNotification ends with at least one successful
\* outcome, the status it persists and the status it returns are both SENT,
\* however many of the other outcomes failed.
C1_AnySuccessIsSent ==
    [][\A r \in Requests :
          (Completes(r) /\ AnySuccess(req[r].deliveryResults))
          => /\ notifications'[req[r].notificationId].status = "SENT"
             /\ req'[r].notificationStatus = "SENT"]_vars

\* C1 witness: a returned round with one success and one failure whose
\* notification is SENT in the store and in the response.
C1_Witness ==
    \E r \in Requests :
        /\ req[r].pc = "done"
        /\ AnySuccess(req[r].deliveryResults)
        /\ AnyFailure(req[r].deliveryResults)
        /\ req[r].notificationStatus = "SENT"
        /\ notifications[req[r].notificationId].status = "SENT"

\* C2: when a round of createNotification has no target, or no successful
\* outcome, the notification row exists, the status persisted and returned
\* is FAILED, and with no target there is no delivery row of the notification.
C2_NoSuccessIsFailed ==
    [][\A r \in Requests :
          (Completes(r) /\ ~AnySuccess(req[r].deliveryResults))
          => /\ req[r].notificationId \in 1..Len(notifications')
             /\ notifications'[req[r].notificationId].status = "FAILED"
             /\ req'[r].notificationStatus = "FAILED"
             /\ Len(Targets(r)) = 0 =>
                   {k \in 1..Len(deliveries') :
                       deliveries'[k].notificationId = req[r].notificationId} = {}]_vars

\* C2 witness: a returned round without targets: the notification is FAILED
\* and has no delivery row.
C2_Witness ==
    \E r \in Requests :
        /\ req[r].pc = "done"
        /\ Len(Targets(r)) = 0
        /\ req[r].notificationStatus = "FAILED"
        /\ notifications[req[r].notificationId].status = "FAILED"
        /\ RowsOf(req[r].notificationId) = {}

\* C3: a createNotification whose recipient does not exist ends in the
\* not-found error, and it creates no notification row, no delivery row and
\* invokes no handler: the rows of the store are those of the other requests.
C3_MissingRecipient ==
    /\ \A r \in Requests :
          req[r].recipientId = Ghost
          => /\ req[r].pc = "error"
             /\ req[r].error = "NotFound"
             /\ req[r].notificationId = 0
             /\ \A c \in 1..nextChannelId : <<r, c>> \notin handlerCalls
    /\ \A n \in 1..Len(notifications) : notifications[n].recipientId # Ghost
    /\ Len(notifications) =
          Cardinality({r \in Requests : req[r].notificationId # 0})
    /\ \A k \in 1..Len(deliveries) :
          deliveries[k].notificationId \in 1..Len(notifications)

\* C3 witness: a request for the missing recipient was made and rejected.
C3_Witness ==
    \E r \in Requests :
        /\ req[r].recipientId = Ghost
        /\ req[r].error = "NotFound"
        /\ notifications = <<>>
        /\ deliveries = <<>>
        /\ handlerCalls = {}

\* C4: a notification whose persisted status is FAILED or READ keeps that
\* status in every step of every operation.
C4_TerminalStatusKept ==
    [][\A n \in 1..Len(notifications) :
          notifications[n].status \in {"FAILED", "READ"}
          => notifications'[n].status = notifications[n].status]_vars

\* C5: the status of a notification only ever changes PENDING -> SENT,
\* PENDING -> FAILED or SENT -> READ.
C5_OnlySpecifiedTransitions ==
    [][\A n \in 1..Len(notifications) :
          notifications'[n].status # notifications[n].status
          => <<notifications[n].status, notifications'[n].status>> \in
                {<<"PENDING", "SENT">>, <<"PENDING", "FAILED">>,
                 <<"SENT", "READ">>}]_vars

\* the step is a markAsRead call: no other operation writes such a response
MarkAsReadReturns == response' # response /\ response'.op = "markAsRead"

\* C6: a markAsRead by the recipient on a notification that is already READ
\* raises no error, returns the notification with status READ and leaves the
\* persisted status READ.
C6_RereadIsNoOp ==
    [][(MarkAsReadReturns /\ response'.prev = "READ")
       => /\ response'.result = "OK"
          /\ response'.status = "READ"
          /\ notifications[response'.id].status = "READ"
          /\ notifications'[response'.id].status = "READ"
          /\ notifications' = notifications]_vars

\* C6 witness: the last markAsRead found its notification READ and returned
\* it READ.
C6_Witness ==
    /\ response.op = "markAsRead"
    /\ response.result = "OK"
    /\ response.prev = "READ"
    /\ response.status = "READ"
    /\ notifications[response.id].status = "READ"

\* C7: a markAsRead on a notification id that does not exist, or whose
\* recipient is another user, returns the not-found error and changes the
\* status of no notification.
C7_NotOwnedIsNotFound ==
    [][(/\ MarkAsReadReturns
        /\ ~(/\ response'.id \in 1..Len(notifications)
             /\ notifications[response'.id].recipientId = response'.userId))
       => /\ response'.result = "NotFound"
          /\ notifications' = notifications]_vars

\* C7 witness: a user was refused on a notification that exists and is
\* addressed to somebody else.
C7_Witness ==
    /\ response.op = "markAsRead"
    /\ response.result = "NotFound"
    /\ response.id \in 1..Len(notifications)
    /\ notifications[response.id].recipientId # response.userId

\* C8: whatever the handler of a target does (success, failure outcome,
\* raised fault), the loop goes on to the next target with one more result,
\* and a round that returns has invoked the handler of every target, holds
\* one result per target in target order, and returns the status reduced
\* over all of them.
C8_FailureNeverAborts ==
    [][\A r \in Requests :
          /\ (/\ req[r].pc = "send"
              /\ req[r].i <= Len(Targets(r))
              /\ req'[r] # req[r]
              /\ ChannelRowExists(channels, Targets(r)[req[r].i].id))
             => /\ req'[r].pc = "send"
                /\ req'[r].i = req[r].i + 1
                /\ Len(req'[r].deliveryResults) = req[r].i
                /\ <<r, Targets(r)[req[r].i].id>> \in handlerCalls'
          /\ Completes(r)
             => /\ Len(req[r].deliveryResults) = Len(Targets(r))
                /\ \A k \in 1..Len(Targets(r)) :
                      /\ req[r].deliveryResults[k].channelId = Targets(r)[k].id
                      /\ <<r, Targets(r)[k].id>> \in handlerCalls
                /\ req'[r].notificationStatus =
                      IF AnySuccess(req[r].deliveryResults) THEN "SENT"
                      ELSE "FAILED"]_vars

\* C8 witness: a returned round whose first handler raised a fault and whose
\* second target was still attempted, and succeeded.
C8_Witness ==
    \E r \in Requests :
        /\ req[r].pc = "done"
        /\ Len(req[r].deliveryResults) = 2
        /\ req[r].deliveryResults[1].errorMessage = <<"handler fault">>
        /\ req[r].deliveryResults[2].success
        /\ req[r].notificationStatus = "SENT"

\* the kinds of an explicit list that have no registered handler
AbsentKinds(r) ==
    IF req[r].channels.given
    THEN Range(req[r].channels.kinds) \ RegisteredKinds
    ELSE {}

NamesKind(message, kind) ==
    message = <<"No provider available for channel type: ", kind>>

C10_DefaultTargets ==
    [][\A r \in Requests :
          /\ (req[r].pc = "idle" /\ req'[r].pc = "create")
             => req'[r].recipientChannels =
                   SelectSeq(channels, LAMBDA c :
                       c.userId = req'[r].recipientId /\ c.isActive)
          /\ (Completes(r) /\ ~req[r].channels.given)
             => LET res == req[r].deliveryResults
                    snap == req[r].recipientChannels
                IN  /\ Len(res) = Len(snap)
                    /\ \A k \in 1..Len(snap) :
                          /\ res[k].channelId = snap[k].id
                          /\ <<r, snap[k].id>> \in handlerCalls
                          /\ ChannelRowExists(channels, snap[k].id)
                             => \E j \in 1..Len(deliveries) :
                                   /\ deliveries[j].id = res[k].deliveryId
                                   /\ deliveries[j].channelId = snap[k].id
                                   /\ deliveries[j].notificationId =
                                         req[r].notificationId]_vars

\* C10 witness: a returned round without a kind list for a recipient with
\* two active channels of one kind: two results and two delivery rows.
C10_Witness ==
    \E r \in Requests :
        /\ req[r].pc = "done"
        /\ ~req[r].channels.given
        /\ Len(req[r].deliveryResults) = 2
        /\ req[r].deliveryResults[1].channelType =
              req[r].deliveryResults[2].channelType
        /\ req[r].deliveryResults[1].channelId #
              req[r].deliveryResults[2].channelId
        /\ Cardinality(RowsOf(req[r].notificationId)) = 2

\* the channel ids on which request r has invoked a handler
InvokedBy(r) == {c \in 1..nextChannelId : <<r, c>> \in handlerCalls}

\* C11: with an explicit kind list the targets are exactly the channels the
\* recipient owned and had active at the lookup whose kind is in the list,
\* each one once however often the list names its kind: the lookup keeps
\* only active channels of the recipient, no handler is ever invoked on
\* another channel, and a round that returns holds one result per such
\* channel.
C11_ExplicitTargets ==
    [][\A r \in Requests :
          /\ (req[r].pc = "idle" /\ req'[r].pc = "create")
             => Range(req'[r].recipientChannels) =
                   {c \in Range(channels) :
                       c.userId = req'[r].recipientId /\ c.isActive}
          /\ req[r].channels.given
             => LET expected == {c \in Range(req[r].recipientChannels) :
                                   \E k \in 1..Len(req[r].channels.kinds) :
                                       req[r].channels.kinds[k] = c.type}
                    res == req[r].deliveryResults
                IN  /\ {c \in 1..nextChannelId : <<r, c>> \in handlerCalls'}
                          \subseteq {c.id : c \in expected}
                    /\ Completes(r)
                       => /\ Len(res) = Cardinality(expected)
                          /\ {res[k].channelId : k \in 1..Len(res)} =
                                {c.id : c \in expected}
                          /\ InvokedBy(r) = {c.id : c \in expected}]_vars

\* C11 witness: a returned round whose kind list names EMAIL twice, for a
\* recipient with two active EMAIL channels: two results, one per channel.
C11_Witness ==
    \E r \in Requests :
        /\ req[r].pc = "done"
        /\ req[r].channels = KindList(<<"EMAIL", "EMAIL">>)
        /\ Len(req[r].deliveryResults) = 2
        /\ req[r].deliveryResults[1].channelId # req[r].deliveryResults[2].channelId
        /\ \A k \in 1..2 : req[r].deliveryResults[k].channelType = "EMAIL"
        /\ Cardinality(RowsOf(req[r].notificationId)) = 2

\* C12: once a round has returned, the delivery rows of its notification are
\* one per target of the round: as many rows as targets, and for every
\* target exactly one row of that notification and that channel, whatever
\* the handler of the target did.
C12_OneRecordPerTarget ==
    \A r \in Requests :
        req[r].pc = "done"
        => LET rows == RowsOf(req[r].notificationId)
               T == Targets(r)
           IN  /\ Cardinality(rows) = Len(T)
               /\ \A k \in 1..Len(T) :
                     Cardinality({j \in rows :
                                     deliveries[j].channelId = T[k].id}) = 1
               /\ \A j \in rows :
                     \E k \in 1..Len(T) : deliveries[j].channelId = T[k].id

\* C12 witness: a returned round of two targets, the first handler having
\* raised a fault and the row of the second written by the catch block:
\* two rows, one per target.
C12_Witness ==
    \E r \in Requests :
        /\ req[r].pc = "done"
        /\ Len(Targets(r)) = 2
        /\ req[r].deliveryResults[1].errorMessage = <<"handler fault">>
        /\ req[r].deliveryResults[2].errorMessage = <<"store fault">>
        /\ Cardinality(RowsOf(req[r].notificationId)) = 2
        /\ \A k \in 1..2 :
              \E j \in RowsOf(req[r].notificationId) :
                  deliveries[j].channelId = Targets(r)[k].id

\* C13: every delivery row is consistent with itself and with the outcome
\* the round holds for it: sentAt is set exactly when the outcome is a
\* success, failedAt exactly when it is a failure, never both, and the row
\* has an error message exactly when its status is FAILED or RETRY.
C13_RecordFieldsConsistent ==
    /\ \A j \in 1..Len(deliveries) :
          LET d == deliveries[j]
          IN  /\ d.status \in NotificationDeliveryStatus
              /\ (d.sentAt = SET) <=> (d.status \in {"SENT", "DELIVERED"})
              /\ (d.failedAt = SET) <=> (d.status = "FAILED")
              /\ ~(d.sentAt = SET /\ d.failedAt = SET)
              /\ (d.errorMessage # NoMessage) <=> (d.status \in {"FAILED", "RETRY"})
    /\ \A r \in Requests :
          \A k \in 1..Len(req[r].deliveryResults) :
              LET res == req[r].deliveryResults[k]
              IN  \E j \in 1..Len(deliveries) :
                      /\ deliveries[j].id = res.deliveryId
                      /\ deliveries[j].status = res.status
                      /\ (deliveries[j].sentAt = SET) <=> res.success
                      /\ (deliveries[j].failedAt = SET) <=> ~res.success
                      /\ (deliveries[j].errorMessage # NoMessage) <=> ~res.success

\* C13 witness: a round has written the row of a success (sentAt, no
\* failedAt, no error message) and the row of a failure (failedAt and an
\* error message, no sentAt).
C13_Witness ==
    \E i, j \in 1..Len(deliveries) :
        /\ deliveries[i].status = "DELIVERED"
        /\ deliveries[i].sentAt = SET
        /\ deliveries[i].failedAt = NULL
        /\ deliveries[i].errorMessage = NoMessage
        /\ deliveries[j].status = "FAILED"
        /\ deliveries[j].sentAt = NULL
        /\ deliveries[j].failedAt = SET
        /\ deliveries[j].errorMessage # NoMessage

\* C14: the aggregate status is written after the whole round: whenever a
\* reader sees a notification with status SENT or FAILED, it sees with it a
\* delivery row for every target of the round that created it, and the
\* round holds an outcome for every target.
C14_StatusAfterAllRecords ==
    \A u \in Users :
        LET view == getUserNotifications(u, NULL, NULL)
        IN  \A i \in 1..Len(view) :
                view[i].status \in {"SENT", "FAILED"}
                => \A r \in Requests :
                      req[r].notificationId = view[i].id
                      => /\ Len(req[r].deliveryResults) = Len(Targets(r))
                         /\ \A k \in 1..Len(Targets(r)) :
                               \E d \in view[i].deliveries :
                                   d.channelId = Targets(r)[k].id

\* C14 witness: a reader sees a SENT notification of a round with two
\* targets together with both delivery rows.
C14_Witness ==
    \E r \in Requests :
        /\ req[r].pc = "done"
        /\ Len(Targets(r)) = 2
        /\ LET view == getUserNotifications(req[r].recipientId, "SENT", NULL)
           IN  \E i \in 1..Len(view) :
                   /\ view[i].id = req[r].notificationId
                   /\ Cardinality(view[i].deliveries) = 2

SuccessRows(n) ==
    {j \in 1..Len(deliveries) :
        /\ deliveries[j].notificationId = n
        /\ deliveries[j].status \in {"SENT", "DELIVERED"}}

C16_UniqueTriple ==
    \A i, j \in 1..Len(channels) :
        (/\ channels[i].userId = channels[j].userId
         /\ channels[i].type = channels[j].type
         /\ channels[i].value = channels[j].value)
        => i = j

\* C16 witness: createNotificationChannel was called with a valid address
\* whose (owner, kind, address) a row already has; the call failed and the
\* table holds that one row.
C16_Witness ==
    /\ response.op = "createChannel"
    /\ response.result = "Conflict"
    /\ ValidateChannelValue(response.type, response.value)
    /\ Cardinality({i \in 1..Len(channels) :
                       /\ channels[i].userId = response.userId
                       /\ channels[i].type = response.type
                       /\ channels[i].value = response.value}) = 1

\* the step is a createNotificationChannel call
CreateChannelReturns == chanOps' # chanOps /\ response'.op = "createChannel"

\* the address has the syntax of its kind
WellFormed(type, value) ==
    \/ type = "EMAIL" /\ EmailValidate(value)
    \/ type = "FCM" /\ FcmValidate(value)

\* C17: a createNotificationChannel whose address fails the validation of
\* its kind fails with the invalid-format error and leaves the channel
\* table as it was; a row that is created carries the kind and the address
\* of the call, unchanged.
C17_InvalidAddressRejected ==
    [][CreateChannelReturns
       => /\ ~WellFormed(response'.type, response'.value)
             => /\ response'.result = "Invalid"
                /\ channels' = channels
                /\ nextChannelId' = nextChannelId
          /\ channels' # channels
             => /\ Len(channels') = Len(channels) + 1
                /\ channels'[Len(channels')].type = response'.type
                /\ channels'[Len(channels')].value = response'.value
                /\ \A k \in 1..Len(channels) : channels'[k] = channels[k]]_vars

\* C17 witness: an EMAIL channel was asked for with an address without "@";
\* the call failed and no row has that address.
C17_Witness ==
    /\ response.op = "createChannel"
    /\ response.type = "EMAIL"
    /\ response.value = "nomail"
    /\ response.result = "Invalid"
    /\ \A k \in 1..Len(channels) : channels[k].value # "nomail"
    /\ nextChannelId = Len(channels) + 1

\* the step is an update, a delete or a test of a channel
ChannelRequestReturns ==
    /\ chanOps' # chanOps
    /\ response'.op \in {"updateChannel", "deleteChannel", "testChannel"}

\* C18: an update, a delete or a test of a channel id that is no row, or a
\* row of another user, fails with the not-found error, leaves the channel
\* table and the delivery rows as they were and invokes no handler.
C18_ChannelNotOwnedIsNotFound ==
    [][(/\ ChannelRequestReturns
        /\ ~\E k \in 1..Len(channels) :
               /\ channels[k].id = response'.id
               /\ channels[k].userId = response'.userId)
       => /\ response'.result = "NotFound"
          /\ channels' = channels
          /\ deliveries' = deliveries
          /\ handlerCalls' = handlerCalls]_vars

\* C18 witness: a user asked for the deletion of a channel that exists and
\* belongs to somebody else; the call failed and the row is still there.
C18_Witness ==
    /\ response.op = "deleteChannel"
    /\ response.result = "NotFound"
    /\ \E k \in 1..Len(channels) :
          /\ channels[k].id = response.id
          /\ channels[k].userId # response.userId

\* the provider of the kind needs credentials and the configuration has none
CredentialsAbsent(cfg, type) ==
    \/ type = "FCM" /\ ~cfg.fcmServerKey
    \/ /\ type = "EMAIL"
       /\ cfg.emailProvider \in {"sendgrid", "aws-ses", "nodemailer"}
       /\ ~cfg.emailCreds

\* the send is one of the expected failures: a malformed address, absent
\* credentials, or a fetch that is answered with an error or throws
ExpectedFailure(cfg, call) ==
    \/ ~WellFormed(call.type, call.value)
    \/ CredentialsAbsent(cfg, call.type)
    \/ call.network /\ call.env \in {"rejected", "throws"}

\* C19: EmailProvider.send and FcmProvider.send return an outcome and raise
\* nothing whatever the address, the credentials and the network do; for a
\* malformed address, absent credentials, an error answer and a thrown
\* network error the outcome is success = false with status FAILED and an
\* error message, and otherwise it is a success.
C19_SendReturnsFailures ==
    (response.op = "send" /\ response.env # "raise")
    => /\ ~response.outcome.thrown
       /\ IF ExpectedFailure(config, response)
          THEN /\ ~response.outcome.success
               /\ response.outcome.status = "FAILED"
               /\ response.outcome.errorMessage # NoMessage
          ELSE /\ response.outcome.success
               /\ response.outcome.status = "DELIVERED"

\* C19 witness: FcmProvider.send with a valid token and a server key whose
\* fetch threw: a returned FAILED outcome carrying the error.
C19_Witness ==
    /\ response.op = "send"
    /\ response.type = "FCM"
    /\ response.network
    /\ response.env = "throws"
    /\ ~response.outcome.thrown
    /\ ~response.outcome.success
    /\ response.outcome.status = "FAILED"

\* C20: testConnection of the email provider configured as the console sink
\* answers true, and testConnection of the FCM provider without a server key
\* and of the email provider on SendGrid without an API key answer false,
\* all three without a network call.
C20_TestConnectionWithoutNetwork ==
    response.op = "testConnection"
    => /\ (response.type = "EMAIL" /\ config.emailProvider = "console")
          => response.tested = Tested(TRUE, FALSE)
       /\ (response.type = "FCM" /\ ~config.fcmServerKey)
          => response.tested = Tested(FALSE, FALSE)
       /\ (/\ response.type = "EMAIL"
           /\ config.emailProvider = "sendgrid"
           /\ ~config.emailCreds)
          => response.tested = Tested(FALSE, FALSE)

\* C20 witness: the email provider on SendGrid without an API key was
\* tested while the network would have answered: false, and no call.
C20_Witness ==
    /\ response.op = "testConnection"
    /\ response.type = "EMAIL"
    /\ config.emailProvider = "sendgrid"
    /\ ~config.emailCreds
    /\ response.env = "ok"
    /\ ~response.tested.isConnected
    /\ ~response.tested.network

\* C21: getUserNotifications returns exactly the notifications addressed to
\* the user that have the requested status and the requested category (each
\* only when it is given), every one once, newest first, none addressed to
\* another user, and it leaves the store as it was.
C21_ListingFiltersAndOrders ==
    [][response'.op = "getUserNotifications"
       => LET list == response'.list
              wanted == {n \in 1..Len(notifications) :
                           /\ notifications[n].recipientId = response'.userId
                           /\ \/ response'.status = NULL
                              \/ notifications[n].status = response'.status
                           /\ \/ response'.type = NULL
                              \/ notifications[n].type = response'.type}
          IN  /\ {list[i].id : i \in 1..Len(list)} = wanted
              /\ Len(list) = Cardinality(wanted)
              /\ \A i, j \in 1..Len(list) : i < j => list[i].id > list[j].id
              /\ \A i \in 1..Len(list) :
                    /\ list[i].recipientId = response'.userId
                    /\ list[i].status = notifications[list[i].id].status
                    /\ list[i].type = notifications[list[i].id].type
              /\ notifications' = notifications
              /\ deliveries' = deliveries
              /\ channels' = channels]_vars

\* C21 witness: a listing with both filters that returned two of the user's
\* notifications, newest first, while the table also holds a notification
\* of another user with that status and category.
C21_Witness ==
    /\ response.op = "getUserNotifications"
    /\ response.status # NULL
    /\ response.type # NULL
    /\ Len(response.list) = 2
    /\ response.list[1].id > response.list[2].id
    /\ \E n \in 1..Len(notifications) :
          /\ notifications[n].recipientId # response.userId
          /\ notifications[n].status = response.status
          /\ notifications[n].type = response.type

\* C22: a create-notification request of a user who is neither TEACHER nor
\* ADMIN is rejected before the service is entered: the request ends in the
\* permission error, has no notification and no result, no handler was
\* invoked for it, and every notification row (and so every delivery row)
\* in the store comes from a TEACHER or an ADMIN.
C22_RoleCheckedBeforeDispatch ==
    /\ \A r \in Requests :
          (req[r].senderId # NULL /\ Role(req[r].senderId) \notin {"TEACHER", "ADMIN"})
          => /\ req[r].pc = "error"
             /\ req[r].error = "Forbidden"
             /\ req[r].notificationId = 0
             /\ req[r].deliveryResults = <<>>
             /\ InvokedBy(r) = {}
    /\ \A n \in 1..Len(notifications) :
          Role(notifications[n].senderId) \in {"TEACHER", "ADMIN"}
    /\ \A j \in 1..Len(deliveries) :
          /\ deliveries[j].notificationId \in 1..Len(notifications)
          /\ Role(notifications[deliveries[j].notificationId].senderId)
                \in {"TEACHER", "ADMIN"}

\* C22 witness: a STUDENT asked for a notification and was refused; the
\* store has no notification, no delivery row, and no handler was invoked.
C22_Witness ==
    \E r \in Requests :
        /\ req[r].senderId = "student"
        /\ req[r].pc = "error"
        /\ req[r].error = "Forbidden"
        /\ notifications = <<>>
        /\ deliveries = <<>>
        /\ handlerCalls = {}

\* C23: a createNotification that has found its recipient goes on until it
\* returns, unless a store call throws: its notification is then written
\* SENT or FAILED, and at the return the persisted status is not PENDING.
C23_RoundCompletes ==
    /\ \A r \in Requests :
          (req[r].pc = "create")
          ~> \/ req[r].pc = "done"
             \/ req[r].pc = "error" /\ req[r].error = "Internal"
    /\ [][\A r \in Requests :
             Completes(r)
             => /\ notifications[req[r].notificationId].status \in {"PENDING", "READ"}
                /\ notifications'[req[r].notificationId].status \in {"SENT", "FAILED"}
                /\ req'[r].notificationStatus =
                      notifications'[req[r].notificationId].status]_vars

\* C23 witness: a round over two targets has returned and its notification
\* is no longer PENDING.
C23_Witness ==
    \E r \in Requests :
        /\ req[r].pc = "done"
        /\ req[r].i = 3
        /\ Len(Targets(r)) = 2
        /\ notifications[req[r].notificationId].status \in {"SENT", "FAILED"}
        /\ req[r].notificationStatus = notifications[req[r].notificationId].status

\* C25: every outcome the round holds has a success flag that agrees with
\* its status: a success carries DELIVERED or SENT, a failure carries FAILED
\* and nothing else; and no delivery row has status FAILED together with
\* sentAt, or a success status together with failedAt.
C25_OutcomeFlagMatchesStatus ==
    /\ \A r \in Requests :
          \A k \in 1..Len(req[r].deliveryResults) :
              LET res == req[r].deliveryResults[k]
              IN  /\ res.success <=> (res.status \in {"DELIVERED", "SENT"})
                  /\ (~res.success) <=> (res.status = "FAILED")
    /\ \A j \in 1..Len(deliveries) :
          /\ ~(deliveries[j].status = "FAILED" /\ deliveries[j].sentAt = SET)
          /\ ~(deliveries[j].status \in {"DELIVERED", "SENT"}
                /\ deliveries[j].failedAt = SET)

\* C25 witness: one round holds the outcome of a handler that delivered and
\* the outcome of a handler that threw, and both have their delivery rows.
C25_Witness ==
    \E r \in Requests :
        \E k, l \in 1..Len(req[r].deliveryResults) :
            /\ req[r].deliveryResults[k].success
            /\ req[r].deliveryResults[k].status = "DELIVERED"
            /\ ~req[r].deliveryResults[l].success
            /\ req[r].deliveryResults[l].status = "FAILED"
            /\ req[r].deliveryResults[l].errorMessage = <<"handler fault">>
            /\ \E i, j \in 1..Len(deliveries) :
                  /\ deliveries[i].id = req[r].deliveryResults[k].deliveryId
                  /\ deliveries[i].sentAt = SET
                  /\ deliveries[j].id = req[r].deliveryResults[l].deliveryId
                  /\ deliveries[j].failedAt = SET

\* C26: a createNotificationChannel for a kind that has no registered
\* provider fails with the invalid-format error whatever the address is and
\* leaves the channel table as it was; a call that creates a row creates it
\* with a registered kind and an address that has the syntax of that kind.
C26_UnregisteredKindRejected ==
    [][CreateChannelReturns
       => /\ response'.type \notin {"EMAIL", "FCM"}
             => /\ response'.result = "Invalid"
                /\ channels' = channels
          /\ channels' # channels
             => /\ response'.result = "OK"
                /\ Len(channels') = Len(channels) + 1
                /\ LET c == channels'[Len(channels')]
                   IN  /\ c.id = response'.id
                       /\ c.type \in {"EMAIL", "FCM"}
                       /\ WellFormed(c.type, c.value)]_vars

\* C26 witness: a teacher has created an EMAIL channel, and the last call
\* asked for a SLACK channel with a well-formed email address and was
\* refused.
C26_Witness ==
    /\ response.op = "createChannel"
    /\ response.type = "SLACK"
    /\ response.value = "a@b.c"
    /\ response.result = "Invalid"
    /\ \E k \in 1..Len(channels) :
          /\ channels[k].userId = "teacher"
          /\ channels[k].type = "EMAIL"
          /\ channels[k].value = "a@b.c"

\* C27: whenever the handler of a target answered success, the outcome the
\* round counts for that target is a success and the delivery row written
\* for it has a success status, also when the row is the fallback one.
C27_HandlerSuccessIsRecorded ==
    \A r \in Requests :
        \A k \in 1..Len(req[r].deliveryResults) :
            req[r].handled[k]
            => /\ req[r].deliveryResults[k].success
               /\ \E j \in 1..Len(deliveries) :
                     /\ deliveries[j].id = req[r].deliveryResults[k].deliveryId
                     /\ deliveries[j].status \in {"DELIVERED", "SENT"}

\* the step is an updateNotificationChannel call
UpdateChannelReturns == chanOps' # chanOps /\ response'.op = "updateChannel"

\* C28: an updateNotificationChannel keeps the rows of the channel table
\* and, in every row, the id, the owner, the kind and the address; it
\* changes no row but the addressed one, and that one only when the caller
\* owns it; a row whose address had the syntax of its kind still has it.
C28_UpdateKeepsIdentity ==
    [][UpdateChannelReturns
       => /\ Len(channels') = Len(channels)
          /\ \A k \in 1..Len(channels) :
                /\ channels'[k].id = channels[k].id
                /\ channels'[k].userId = channels[k].userId
                /\ channels'[k].type = channels[k].type
                /\ channels'[k].value = channels[k].value
                /\ (channels[k].id # response'.id
                    \/ channels[k].userId # response'.userId)
                   => channels'[k] = channels[k]
                /\ WellFormed(channels[k].type, channels[k].value)
                   => WellFormed(channels'[k].type, channels'[k].value)]_vars

\* C28 witness: after three channel requests, the last an update that was
\* carried out, the student's channel a@b.c is still theirs and well-formed
\* with both flags turned off, beside a second channel of the same owner
\* that is still active.
C28_Witness ==
    /\ chanOps = 3
    /\ response.op = "updateChannel"
    /\ response.result = "OK"
    /\ \E k, l \in 1..Len(channels) :
          /\ channels[k].id = response.id
          /\ channels[k].userId = "student"
          /\ channels[k].type = "EMAIL"
          /\ channels[k].value = "a@b.c"
          /\ WellFormed(channels[k].type, channels[k].value)
          /\ ~channels[k].isActive
          /\ ~channels[k].isVerified
          /\ l # k
          /\ channels[l].userId = "student"
          /\ channels[l].isActive

\* C29: whatever channel requests run while a round is in progress, the
\* round is not aborted, and when it has returned it holds one outcome and
\* the store one delivery row for every channel of the snapshot that is a
\* target, and for no other channel.
C29_SnapshotRoundCompletes ==
    \A r \in Requests :
        /\ ~(req[r].pc = "error" /\ req[r].error = "Internal")
        /\ req[r].pc = "done"
           => /\ Len(req[r].deliveryResults) = Len(Targets(r))
              /\ \A k \in 1..Len(Targets(r)) :
                    Cardinality({j \in RowsOf(req[r].notificationId) :
                                    deliveries[j].channelId = Targets(r)[k].id}) = 1
              /\ \A j \in RowsOf(req[r].notificationId) :
                    \E k \in 1..Len(Targets(r)) :
                        deliveries[j].channelId = Targets(r)[k].id

\* the chunks of a list, one after the other
RECURSIVE Concat(_)
Concat(chunks) ==
    IF chunks = <<>> THEN <<>>
    ELSE chunks[1] \o Concat(Tail(chunks))

\* the chunks are consecutive pieces of the list, none empty, none longer
\* than size, and all but the last of exactly size
ChunksOf(chunks, array, size) ==
    /\ Concat(chunks) = array
    /\ \A k \in 1..Len(chunks) :
          /\ 1 <= Len(chunks[k])
          /\ Len(chunks[k]) <= size
          /\ k < Len(chunks) => Len(chunks[k]) = size

\* C30: chunkArray(array, size) with size >= 1 returns consecutive chunks
\* whose concatenation is the array, each of at most size elements and all
\* but the last of exactly size; sendToMultipleTokens hands every token to
\* sendBatch exactly once, in batches of at most 500 tokens.
C30_ChunksPartitionInput ==
    /\ response.op = "chunkArray"
       => ChunksOf(response.chunks, response.array, response.size)
    /\ response.op = "sendToMultipleTokens"
       => /\ ChunksOf(response.batches, response.tokens, BatchSize)
          /\ \A t \in 1..Len(response.tokens) :
                \E b \in 1..Len(response.batches) :
                    /\ \E p \in 1..Len(response.batches[b]) :
                          response.batches[b][p] = response.tokens[t]
                    /\ \A c \in 1..Len(response.batches) :
                          (\E p \in 1..Len(response.batches[c]) :
                              response.batches[c][p] = response.tokens[t])
                          => c = b

\* C30 witness: 1001 tokens went out in three batches, of 500, 500 and one.
C30_Witness ==
    /\ response.op = "sendToMultipleTokens"
    /\ Len(response.tokens) = 2 * BatchSize + 1
    /\ Len(response.batches) = 3
    /\ Len(response.batches[1]) = BatchSize
    /\ Len(response.batches[2]) = BatchSize
    /\ response.batches[3] = << 2 * BatchSize + 1 >>

====
